---- MODULE Spec2Model ----
(***************************************************************************)
(* Model of sssom-validate-ui: the SSSOMValidation orchestrator and its     *)
(* capture sink (src/sssom_validate_ui/utils.py) and the line limit of the  *)
(* Streamlit page (src/sssom_validate_ui/app.py).                           *)
(*                                                                          *)
(* Text written to a capture buffer is a sequence of tokens: the severity   *)
(* markers, a blank, a message word, and the line breaks.  The mapping-set  *)
(* text handed to the external libraries (sssom-py, tsvalid) is represented *)
(* by what those libraries do with it: whether it parses, the rows and the  *)
(* metadata of the parsed set, and what each library writes while it works. *)
(***************************************************************************)
EXTENDS Integers, Sequences, FiniteSets, TLC

\* ---------------------------------------------------------------- bounds
MaxRows == 6
MaxRuns == 2
MaxExtraLines == 3

\* ------------------------------------------------------------- constants
limit_lines_evaluated == 1000
default_limit_lines_displayed == 5

recognise_error_string == "**ERROR**:"
recognise_warning_string == "**WARNING**:"
NoIssues == <<"No issues detected.">>

Checks == {"sssom_validation", "tsvalid", "sssom_conversion"}
RunOrder_swapped == <<"tsvalid", "sssom_validation", "sssom_conversion">>

RunOrder == <<"sssom_validation", "tsvalid", "sssom_conversion">>

\* ------------------------------------------------------- text primitives
LineBreaks == {"\n", "\r"}

RECURSIVE splitlines_from(_, _, _)
splitlines_from(s, i, cur) ==
  IF i > Len(s)
    THEN (IF cur = <<>> THEN <<>> ELSE <<cur>>)
    ELSE IF s[i] = "\n"
      THEN <<cur>> \o splitlines_from(s, i + 1, <<>>)
      ELSE IF s[i] = "\r"
        THEN <<cur>> \o splitlines_from(
               s, IF i < Len(s) /\ s[i + 1] = "\n" THEN i + 2 ELSE i + 1, <<>>)
        ELSE splitlines_from(s, i + 1, Append(cur, s[i]))

splitlines(s) == splitlines_from(s, 1, <<>>)

startswith(line, prefix) == Len(line) >= 1 /\ line[1] = prefix

contains(line, word) == \E i \in 1..Len(line) : line[i] = word

RECURSIVE CountLines(_, _, _)
CountLines(lines, i, prefix) ==
  IF i > Len(lines) THEN 0
  ELSE (IF startswith(lines[i], prefix) THEN 1 ELSE 0) + CountLines(lines, i + 1, prefix)

\* ------------------------------------------------------------ log format
LevelMarker(level) ==
  CASE level = "ERROR" -> "**ERROR**:"
    [] level = "WARNING" -> "**WARNING**:"
    [] level = "INFO" -> "**INFO**:"

\* Formatter("**%(levelname)s**: %(message)s\n\n") and the handler's terminator
FormatRecord(level, msg) == <<LevelMarker(level), " ">> \o msg \o <<"\n", "\n", "\n">>

Log(level, msg) == [kind |-> "log", level |-> level, text |-> msg]
Out(text) == [kind |-> "out", level |-> "", text |-> text]
Err(text) == [kind |-> "err", level |-> "", text |-> text]

EmissionText(e) == IF e.kind = "log" THEN FormatRecord(e.level, e.text) ELSE e.text

RECURSIVE EmittedText(_, _)
EmittedText(es, i) ==
  IF i > Len(es) THEN <<>> ELSE EmissionText(es[i]) \o EmittedText(es, i + 1)


\* ------------------------------------------------------ external libraries
\* What sssom-py and tsvalid may write while they work: log records, prints, and
\* partial writes.  The cases put a marker at column 0, after a blank, after
\* unterminated text, and after a CRLF.
LibOutputs ==
  { <<>>,
    <<Log("ERROR", <<"m">>)>>,
    <<Log("WARNING", <<"m">>), Log("WARNING", <<"m">>)>>,
    <<Out(<<" ", "**ERROR**:", " ", "m", "\n">>), Out(<<"m", " ", "**WARNING**:", "\n">>)>>,
    <<Err(<<"m">>), Log("ERROR", <<"m">>), Out(<<"**ERROR**:", "m", "\r", "\n", "**WARNING**:">>)>> }

DisplayLimits == {2, default_limit_lines_displayed}

SssomTexts ==
  [parses : {TRUE}, rows : 0..MaxRows, extension_definitions : BOOLEAN,
   schema_out : LibOutputs, tsvalid_out : LibOutputs, conversion_out : LibOutputs]
  \cup
  [parses : {FALSE}, rows : {0}, extension_definitions : {FALSE},
   schema_out : LibOutputs, tsvalid_out : {<<>>}, conversion_out : {<<>>}]

MappingSetDataFrame(df, metadata) == [df |-> df, metadata |-> metadata]

parse_sssom_table(text) ==
  MappingSetDataFrame([i \in 1..text.rows |-> i],
                      [extension_definitions |-> text.extension_definitions])

head(df, n) == SubSeq(df, 1, IF n < Len(df) THEN n ELSE Len(df))

Empty == [format |-> "", rows |-> <<>>]
to_json(m) == [format |-> "json", rows |-> m.df]
to_rdf_graph(m) == [format |-> "turtle", rows |-> m.df]
to_markdown(m) == [format |-> "markdown", rows |-> m.df]

ExtensionMessage ==
  <<"Extension definitions are not supported in RDF output yet.", "\n",
    "This means that we could test if your code can be translated to RDF.", "\n",
    "Follow https://github.com/linkml/linkml/issues/2445 for updates.">>

\* ------------------------------------------------------------------ state
VARIABLES
  sssom_text, limit_lines_displayed, sssom_json, sssom_rdf, sssom_markdown, msdf,
  capture,            \* the three StringIO buffers, by check
  root_handlers,      \* handlers of logging.getLogger()
  sys_stdout, sys_stderr, saved_stdout, saved_stderr,
  pc, step, exc, runs,
  emitted, run_emitted, start_len, handlers_before, order,   \* history
  app_sssom_text, truncated_text, sssom_length_within_limit, notice, validated_text

orchestrator_vars ==
  <<sssom_text, limit_lines_displayed, sssom_json, sssom_rdf, sssom_markdown, msdf,
    capture, root_handlers, sys_stdout, sys_stderr, saved_stdout, saved_stderr,
    pc, step, exc, runs, emitted, run_emitted, start_len, handlers_before, order>>
app_vars ==
  <<app_sssom_text, truncated_text, sssom_length_within_limit, notice, validated_text>>
vars == <<orchestrator_vars, app_vars>>

cur == RunOrder[step]

\* ----------------------------------------------------------- capture sink
Deliver(caps, e, handlers, out, err) ==
  [c \in Checks |->
     IF e.kind = "log" /\ c \in handlers THEN caps[c] \o FormatRecord(e.level, e.text)
     ELSE IF e.kind = "out" /\ c = out THEN caps[c] \o e.text
     ELSE IF e.kind = "err" /\ c = err THEN caps[c] \o e.text
     ELSE caps[c]]

RECURSIVE DeliverAll(_, _, _, _, _, _)
DeliverAll(caps, es, i, handlers, out, err) ==
  IF i > Len(es) THEN caps
  ELSE DeliverAll(Deliver(caps, es[i], handlers, out, err), es, i + 1, handlers, out, err)

AddHandler(handlers, h) == handlers \cup {h}

RemoveHandler_leak(handlers, h) == handlers

RemoveHandler(handlers, h) == handlers \ {h}

\* The task writes es while the sink of the current check is installed.
Writes(es) ==
  /\ capture' = DeliverAll(capture, es, 1, root_handlers, sys_stdout, sys_stderr)
  /\ emitted' = [emitted EXCEPT ![cur] = @ \o EmittedText(es, 1)]
  /\ run_emitted' = [run_emitted EXCEPT ![cur] = @ \o EmittedText(es, 1)]


\* ------------------------------------------------------- report classifier
_get_report_raw(capture_stream) == capture_stream

_get_report(capture_stream) == IF capture_stream = <<>> THEN NoIssues ELSE capture_stream

get_tsvalid_report == _get_report(capture["tsvalid"])
get_sssom_validation_report == _get_report(capture["sssom_validation"])
get_sssom_conversion_report == _get_report(capture["sssom_conversion"])

RECURSIVE CountLinesContaining(_, _, _)
CountLinesContaining(lines, i, word) ==
  IF i > Len(lines) THEN 0
  ELSE (IF contains(lines[i], word) THEN 1 ELSE 0) + CountLinesContaining(lines, i + 1, word)

_count_line_beginnings_anywhere(report, recognise_string) ==
  CountLinesContaining(splitlines(report), 1, recognise_string)

_count_line_beginnings(report, recognise_string) ==
  CountLines(splitlines(report), 1, recognise_string)

count_errors_tsvalid == _count_line_beginnings(get_tsvalid_report, recognise_error_string)
count_errors_sssom_validation ==
  _count_line_beginnings(get_sssom_validation_report, recognise_error_string)
count_errors_sssom_conversion ==
  _count_line_beginnings(get_sssom_conversion_report, recognise_error_string)

count_warnings_tsvalid == _count_line_beginnings(get_tsvalid_report, recognise_warning_string)
count_warnings_sssom_validation ==
  _count_line_beginnings(get_sssom_validation_report, recognise_warning_string)
count_warnings_sssom_conversion ==
  _count_line_beginnings(get_sssom_conversion_report, recognise_warning_string)

is_ok_tsvalid == count_errors_tsvalid = 0
is_ok_sssom_validation == count_errors_sssom_validation = 0
is_ok_sssom_conversion == count_errors_sssom_conversion = 0

is_valid_skips_conversion == is_ok_tsvalid /\ is_ok_sssom_validation

is_valid == is_ok_tsvalid /\ is_ok_sssom_validation /\ is_ok_sssom_conversion

\* ------------------------------------------------------------ orchestrator
\* SSSOMValidation(sssom_text, limit_lines_displayed)
Construct ==
  /\ sssom_text \in SssomTexts
  /\ limit_lines_displayed \in DisplayLimits
  /\ sssom_json = Empty /\ sssom_rdf = Empty /\ sssom_markdown = Empty
  /\ msdf = <<>>
  /\ capture = [c \in Checks |-> <<>>]
  /\ root_handlers \in {{}, {"other"}}
  /\ sys_stdout = "console" /\ sys_stderr = "console"
  /\ saved_stdout = "console" /\ saved_stderr = "console"
  /\ pc = "idle" /\ step = 1 /\ exc = "none" /\ runs = 0
  /\ emitted = [c \in Checks |-> <<>>]
  /\ run_emitted = [c \in Checks |-> <<>>]
  /\ start_len = [c \in Checks |-> 0]
  /\ handlers_before = root_handlers
  /\ order = <<>>

\* a caller invokes run()
RunStart ==
  /\ pc \in {"idle", "done", "raised"}
  /\ runs < MaxRuns
  /\ pc' = "call" /\ step' = 1 /\ exc' = "none" /\ runs' = runs + 1
  /\ run_emitted' = [c \in Checks |-> <<>>]
  /\ order' = <<>>
  /\ UNCHANGED app_vars
  /\ UNCHANGED <<sssom_text, limit_lines_displayed, sssom_json, sssom_rdf, sssom_markdown,
                 msdf, capture, root_handlers, sys_stdout, sys_stderr, saved_stdout,
                 saved_stderr, emitted, start_len, handlers_before>>

\* run_with_capture: redirect_stdout, redirect_stderr, configure_logger entered
Enter ==
  /\ pc = "call"
  /\ saved_stdout' = sys_stdout /\ sys_stdout' = cur
  /\ saved_stderr' = sys_stderr /\ sys_stderr' = cur
  /\ handlers_before' = root_handlers
  /\ root_handlers' = AddHandler(root_handlers, cur)
  /\ start_len' = [start_len EXCEPT ![cur] = Len(capture[cur])]
  /\ order' = Append(order, cur)
  /\ pc' = "in"
  /\ UNCHANGED app_vars
  /\ UNCHANGED <<sssom_text, limit_lines_displayed, sssom_json, sssom_rdf, sssom_markdown,
                 msdf, capture, step, exc, runs, emitted, run_emitted>>

_run_sssom_validation ==
  /\ pc = "in" /\ cur = "sssom_validation"
  /\ Writes(sssom_text.schema_out)
  /\ IF sssom_text.parses
       THEN msdf' = <<parse_sssom_table(sssom_text)>> /\ exc' = "none"
       ELSE msdf' = msdf /\ exc' = "ParseError"
  /\ pc' = "out"
  /\ UNCHANGED app_vars
  /\ UNCHANGED <<sssom_text, limit_lines_displayed, sssom_json, sssom_rdf, sssom_markdown,
                 root_handlers, sys_stdout, sys_stderr, saved_stdout, saved_stderr,
                 step, runs, start_len, handlers_before, order>>

_run_tsvalid_validation ==
  /\ pc = "in" /\ cur = "tsvalid"
  /\ Writes(sssom_text.tsvalid_out)
  /\ pc' = "out"
  /\ UNCHANGED app_vars
  /\ UNCHANGED <<sssom_text, limit_lines_displayed, sssom_json, sssom_rdf, sssom_markdown,
                 msdf, root_handlers, sys_stdout, sys_stderr, saved_stdout, saved_stderr,
                 step, exc, runs, start_len, handlers_before, order>>

ConversionLog(m) ==
  IF m.metadata.extension_definitions THEN <<Log("WARNING", ExtensionMessage)>> ELSE <<>>

ConversionRdf_always(m, old) == to_rdf_graph(m)

ConversionRdf(m, old) ==
  IF m.metadata.extension_definitions THEN old ELSE to_rdf_graph(m)

_run_sssom_conversion ==
  /\ pc = "in" /\ cur = "sssom_conversion"
  /\ IF msdf = <<>>
       THEN /\ exc' = "ValueError"
            /\ UNCHANGED <<sssom_json, sssom_rdf, sssom_markdown, capture, emitted,
                           run_emitted>>
       ELSE LET m == msdf[1]
                msdf_subset_for_display ==
                  MappingSetDataFrame(head(m.df, limit_lines_displayed), m.metadata)
            IN /\ sssom_json' = to_json(msdf_subset_for_display)
               /\ sssom_rdf' = ConversionRdf(m, sssom_rdf)
               /\ sssom_markdown' = to_markdown(msdf_subset_for_display)
               /\ Writes(sssom_text.conversion_out \o ConversionLog(m))
               /\ exc' = "none"
  /\ pc' = "out"
  /\ UNCHANGED app_vars
  /\ UNCHANGED <<sssom_text, limit_lines_displayed, msdf, root_handlers, sys_stdout,
                 sys_stderr, saved_stdout, saved_stderr, step, runs, start_len,
                 handlers_before, order>>

\* run_with_capture: the three contexts left, normally or by the task's exception
Exit ==
  /\ pc = "out"
  /\ root_handlers' = RemoveHandler(root_handlers, cur)
  /\ sys_stdout' = saved_stdout /\ sys_stderr' = saved_stderr
  /\ IF exc # "none" THEN pc' = "raised" /\ step' = step
     ELSE IF step = Len(RunOrder) THEN pc' = "done" /\ step' = step
     ELSE pc' = "call" /\ step' = step + 1
  /\ UNCHANGED app_vars
  /\ UNCHANGED <<sssom_text, limit_lines_displayed, sssom_json, sssom_rdf, sssom_markdown,
                 msdf, capture, saved_stdout, saved_stderr, exc, runs, emitted,
                 run_emitted, start_len, handlers_before, order>>


\* --------------------------------------------------------- page (app.py)
\* The text of the text area is its lines and whether a line break ends it; a text
\* never ends in an unterminated empty line.
Text(lines, nl) == [lines |-> lines, nl |-> nl]

LineAt(k, i) ==
  CASE k = 0 -> "a"
    [] k = 1 -> (IF i % 2 = 0 THEN "a" ELSE "b")
    [] k = 2 -> (IF i % 4 = 0 THEN "" ELSE "a")

AppLineCounts ==
  (0..4) \cup ((limit_lines_evaluated - 3)..(limit_lines_evaluated + MaxExtraLines))

AppTexts ==
  { t \in { Text([i \in 1..n |-> LineAt(k, i)], nl) :
              n \in AppLineCounts, k \in 0..2, nl \in BOOLEAN } :
      /\ t.lines = <<>> => ~t.nl
      /\ (t.lines # <<>> /\ t.lines[Len(t.lines)] = "") => t.nl }

text_splitlines(t) == t.lines

\* "\n".join(lines): a last line that is empty leaves the text ending in a break
join(lines) ==
  IF lines # <<>> /\ lines[Len(lines)] = ""
    THEN Text(SubSeq(lines, 1, Len(lines) - 1), Len(lines) > 1)
    ELSE Text(lines, FALSE)

Undefined == Text(<<"undefined">>, FALSE)

\* the script's lines 162-165, run on every rerun of the page
Truncation(t) ==
  IF Len(text_splitlines(t)) > limit_lines_evaluated
    THEN [truncated_text |-> join(SubSeq(text_splitlines(t), 1, limit_lines_evaluated)),
          sssom_length_within_limit |-> FALSE]
    ELSE [truncated_text |-> Undefined, sssom_length_within_limit |-> TRUE]

PageRendered(t) ==
  /\ app_sssom_text = t
  /\ truncated_text = Truncation(t).truncated_text
  /\ sssom_length_within_limit = Truncation(t).sssom_length_within_limit
  /\ notice = FALSE
  /\ validated_text = Undefined

\* the user edits the text area: the script reruns, the button is not pressed
EditText ==
  /\ \E t \in AppTexts :
       /\ app_sssom_text' = t
       /\ truncated_text' = Truncation(t).truncated_text
       /\ sssom_length_within_limit' = Truncation(t).sssom_length_within_limit
  /\ notice' = FALSE
  /\ validated_text' = Undefined
  /\ UNCHANGED orchestrator_vars

\* the user presses Validate: the script reruns with the button pressed
Validate ==
  /\ truncated_text' = Truncation(app_sssom_text).truncated_text
  /\ sssom_length_within_limit' = Truncation(app_sssom_text).sssom_length_within_limit
  /\ notice' = ~sssom_length_within_limit'
  /\ validated_text' = app_sssom_text
  /\ UNCHANGED <<app_sssom_text>>
  /\ UNCHANGED orchestrator_vars

\* ---------------------------------------------------------- specifications
Init == Construct /\ PageRendered(Text(<<"a">>, FALSE))

Next ==
  \/ RunStart
  \/ Enter
  \/ _run_sssom_validation
  \/ _run_tsvalid_validation
  \/ _run_sssom_conversion
  \/ Exit

Spec == Init /\ [][Next]_vars

AppInit ==
  /\ Construct
  /\ sssom_text = [parses |-> TRUE, rows |-> 0, extension_definitions |-> FALSE,
                   schema_out |-> <<>>, tsvalid_out |-> <<>>, conversion_out |-> <<>>]
  /\ limit_lines_displayed = default_limit_lines_displayed
  /\ root_handlers = {}
  /\ \E t \in AppTexts : PageRendered(t)

AppNext == EditText \/ Validate

SpecApp == AppInit /\ [][AppNext]_vars


\* ------------------------------------------------------------- properties
Finished == pc \in {"done", "raised"}

\* occurrences of a marker at column 0: at the start of the text or right after a break
MarkerAtLineStart(s, marker) ==
  Cardinality({ i \in 1..Len(s) : s[i] = marker /\ (i = 1 \/ s[i - 1] \in LineBreaks) })

ReportOf(c) ==
  CASE c = "tsvalid" -> get_tsvalid_report
    [] c = "sssom_validation" -> get_sssom_validation_report
    [] c = "sssom_conversion" -> get_sssom_conversion_report

\* C1: after run(), is_valid() is true exactly when no report has a line that begins
\* with **ERROR**:, which is when all three is_ok_* are true; **WARNING**: lines do
\* not enter into it.
C1_ValidIffNoErrorLine ==
  Finished =>
    /\ is_valid <=> (\A c \in Checks : MarkerAtLineStart(ReportOf(c), "**ERROR**:") = 0)
    /\ is_valid <=> (is_ok_tsvalid /\ is_ok_sssom_validation /\ is_ok_sssom_conversion)

C1_Witness ==
  /\ pc = "done"
  /\ ~is_valid /\ is_ok_tsvalid /\ is_ok_sssom_validation
  /\ count_warnings_tsvalid > 0

\* C2: run() returns normally for every input: a text that does not parse leaves
\* exactly one **ERROR**: line in the schema report, no exception leaves run(), and
\* linting and conversion are still executed.
C2_RunNeverRaises ==
  (Finished /\ ~sssom_text.parses) =>
    /\ pc = "done" /\ exc = "none"
    /\ count_errors_sssom_validation = 1
    /\ order = <<"sssom_validation", "tsvalid", "sssom_conversion">>

\* C3: a text of more than limit_lines_evaluated lines is handed to the checks as
\* exactly its first limit_lines_evaluated lines, with a notice; a text within the
\* limit is handed over unchanged, without a notice.
C3_TruncatedTextValidated ==
  validated_text # Undefined =>
    IF Len(text_splitlines(app_sssom_text)) > limit_lines_evaluated
      THEN /\ text_splitlines(validated_text)
                = SubSeq(text_splitlines(app_sssom_text), 1, limit_lines_evaluated)
           /\ notice
      ELSE validated_text = app_sssom_text /\ ~notice

\* C4: each check's error count is the number of report lines with **ERROR**: at
\* column 0, its warning count the number with **WARNING**: at column 0, and the
\* check is ok exactly when the error count is 0; a marker after a blank or in
\* mid-line is not counted.
C4_CountsAreColumnZeroMarkers ==
  /\ count_errors_tsvalid = MarkerAtLineStart(ReportOf("tsvalid"), "**ERROR**:")
  /\ count_errors_sssom_validation
       = MarkerAtLineStart(ReportOf("sssom_validation"), "**ERROR**:")
  /\ count_errors_sssom_conversion
       = MarkerAtLineStart(ReportOf("sssom_conversion"), "**ERROR**:")
  /\ count_warnings_tsvalid = MarkerAtLineStart(ReportOf("tsvalid"), "**WARNING**:")
  /\ count_warnings_sssom_validation
       = MarkerAtLineStart(ReportOf("sssom_validation"), "**WARNING**:")
  /\ count_warnings_sssom_conversion
       = MarkerAtLineStart(ReportOf("sssom_conversion"), "**WARNING**:")
  /\ is_ok_tsvalid <=> MarkerAtLineStart(ReportOf("tsvalid"), "**ERROR**:") = 0
  /\ is_ok_sssom_validation
       <=> MarkerAtLineStart(ReportOf("sssom_validation"), "**ERROR**:") = 0
  /\ is_ok_sssom_conversion
       <=> MarkerAtLineStart(ReportOf("sssom_conversion"), "**ERROR**:") = 0

C4_Witness ==
  /\ pc = "done"
  /\ contains(capture["tsvalid"], "**ERROR**:") /\ contains(capture["tsvalid"], "**WARNING**:")
  /\ count_errors_tsvalid = 0 /\ count_warnings_tsvalid = 0
  /\ count_warnings_sssom_validation = 2 /\ is_ok_sssom_validation
  /\ count_errors_sssom_conversion = 1 /\ count_warnings_sssom_conversion = 1

\* C5: a check whose capture buffer is empty reports "No issues detected." and is
\* ok with no errors and no warnings; so does every check before run() is called.
C5_EmptyCaptureIsNoIssues ==
  /\ capture["tsvalid"] = <<>> =>
       /\ get_tsvalid_report = <<"No issues detected.">>
       /\ is_ok_tsvalid /\ count_errors_tsvalid = 0 /\ count_warnings_tsvalid = 0
  /\ capture["sssom_validation"] = <<>> =>
       /\ get_sssom_validation_report = <<"No issues detected.">>
       /\ is_ok_sssom_validation
       /\ count_errors_sssom_validation = 0 /\ count_warnings_sssom_validation = 0
  /\ capture["sssom_conversion"] = <<>> =>
       /\ get_sssom_conversion_report = <<"No issues detected.">>
       /\ is_ok_sssom_conversion
       /\ count_errors_sssom_conversion = 0 /\ count_warnings_sssom_conversion = 0

C5_Witness ==
  /\ pc = "done"
  /\ capture["tsvalid"] = <<>>
  /\ capture["sssom_validation"] # <<>> /\ ~is_ok_sssom_validation


\* what the current call of a check appended to the check's buffer
Appended(c) == SubSeq(capture[c], start_len[c] + 1, Len(capture[c]))

\* records of the extension warning in a text, wherever on a line they begin
ExtensionWarnings(s) ==
  Cardinality({ i \in 1..Len(s) :
                  /\ s[i] = "**WARNING**:"
                  /\ i + 2 <= Len(s)
                  /\ s[i + 1] = " "
                  /\ s[i + 2] = ExtensionMessage[1] })

\* C6: with extension_definitions in the parsed metadata, after run() the RDF
\* output is absent, the run appended exactly one **WARNING**: record about it to
\* the conversion report and none to the other reports, and the JSON and Markdown
\* outputs are present.
C6_ExtensionDefinitionsSkipRdf ==
  (pc = "done" /\ msdf[1].metadata.extension_definitions) =>
    /\ sssom_rdf = Empty
    /\ sssom_json # Empty /\ sssom_markdown # Empty
    /\ ExtensionWarnings(Appended("sssom_conversion")) = 1
    /\ ExtensionWarnings(capture["sssom_validation"]) = 0
    /\ ExtensionWarnings(capture["tsvalid"]) = 0

C6_Witness ==
  /\ pc = "done" /\ msdf[1].metadata.extension_definitions
  /\ Len(msdf[1].df) > limit_lines_displayed
  /\ sssom_rdf = Empty /\ sssom_json.format = "json" /\ sssom_markdown.format = "markdown"
  /\ count_warnings_sssom_conversion = 3

\* C7: the JSON, Markdown and Turtle renderings are all made from the first
\* min(limit_lines_displayed, row count) rows of the parsed set, in order; none
\* holds a row beyond the display limit.
C7_RenderingsShareSubset ==
  pc = "done" =>
    \A r \in {sssom_json, sssom_markdown, sssom_rdf} :
      r # Empty => r.rows = head(msdf[1].df, limit_lines_displayed)

\* C8: after every call of run_with_capture, whether the task returned or raised,
\* the root logger has the handlers it had before the call, and an exception of
\* the task has left run_with_capture.
C8_HandlersRestored ==
  /\ pc \in {"idle", "call", "done", "raised"} => root_handlers = handlers_before
  /\ (pc \notin {"in", "out"} /\ exc # "none") => pc = "raised"
  /\ pc = "raised" => exc # "none"

C8_Witness ==
  /\ pc = "raised" /\ exc = "ParseError"
  /\ handlers_before = {"other"} /\ root_handlers = {"other"}
  /\ capture["sssom_validation"] # <<>>

\* C9: the checks of a run start in the order schema validation, linting,
\* conversion, one at a time; at most one capture sink is attached to the root
\* logger, the one of the running check; every buffer holds exactly what its own
\* check wrote.
C9_SequentialIsolatedChecks ==
  /\ \E n \in 0..3 : order = SubSeq(<<"sssom_validation", "tsvalid", "sssom_conversion">>, 1, n)
  /\ Cardinality(root_handlers \cap Checks) <= 1
  /\ pc \in {"in", "out"} =>
       /\ root_handlers \cap Checks = {order[Len(order)]}
       /\ sys_stdout = order[Len(order)] /\ sys_stderr = order[Len(order)]
  /\ pc \notin {"in", "out"} => root_handlers \cap Checks = {}
  /\ \A c \in Checks : capture[c] = emitted[c]

C9_Witness ==
  /\ pc = "out" /\ order = <<"sssom_validation", "tsvalid", "sssom_conversion">>
  /\ root_handlers = {"other", "sssom_conversion"}
  /\ \A c \in Checks : capture[c] # <<>> /\ capture[c] = emitted[c]
  /\ capture["tsvalid"] # capture["sssom_validation"]
  /\ capture["tsvalid"] # capture["sssom_conversion"]

\* C10: over any sequence of run() calls a check's report is empty when the check
\* starts, and after a run it holds only what the check wrote in that run.
C10_FreshReportsEachRun ==
  /\ pc = "in" => start_len[cur] = 0
  /\ pc = "done" => \A c \in Checks : capture[c] = run_emitted[c]

====
